---- MODULE Spec2Model ----
(***************************************************************************)
(* Model of plot_learning_curves.py: the synthetic data generators, the    *)
(* four plot renderers and the driver under `if __name__ == "__main__"`.   *)
(*                                                                         *)
(* Floating-point values are fixed-point integers in thousandths (0.7 is   *)
(* 700).  A table (pandas DataFrame) is a function from column names to    *)
(* equally long sequences.  A draw of np.random.normal(loc, scale, n) is   *)
(* loc + scale * z for a vector z of standard scores that the environment  *)
(* chooses; np.random.rand(n) is a vector of thousandths in [0, 1).        *)
(* A file name is a sequence of text fragments in which a space is always  *)
(* a fragment of its own (" ").                                            *)
(***************************************************************************)
EXTENDS Integers, Sequences, FiniteSets, TLC

VARIABLES
    df,        \* SpecGen: the table returned by the last generator call
    gen,       \* SpecGen: that call and its arguments
    dirs,      \* file system: the directories that exist
    files,     \* file system: the regular files that exist (paths)
    openFigs,  \* pyplot: number of figures created and not closed
    last,      \* the last renderer call: arguments, outcome, effects
    pc,        \* SpecDriver: next statement of the driver
    env,       \* SpecDriver: the driver's table variables
    passes     \* SpecDriver: renderer calls each driver table was passed to

vars == <<df, gen, dirs, files, openFigs, last, pc, env, passes>>

----------------------------------------------------------------------------
(* Bounds of the model *)

MaxEpochs   == 6    \* epochs argument of generate_dummy_maml_trajectory
MaxInterval == 4    \* log_interval argument
MaxPoints   == 3    \* rows of a generated table
ZBig        == 40   \* largest standard score a normal draw takes

\* standard scores of a normal draw: clipped / sign-corrected columns
ZAny == {-ZBig, -3, 0, ZBig}
\* standard scores of a normal draw: the other columns
ZFew == {-3, 3}
\* values of np.random.rand, in thousandths
RandSet == {0, 999}
\* final_drift_mean arguments, in thousandths (0.25, 5.0 the default, 10)
DriftMeans == {250, 5000, 10000}
\* final_drift_std arguments, in thousandths (1.0 the default, 2.0)
DriftStds == {1000, 2000}

Vec(S, n) == [1..n -> S]

----------------------------------------------------------------------------
(* numpy / pandas primitives *)

\* mutant: the absolute value is left out
AbsMissing(v) == v

Abs(v) == IF v < 0 THEN -v ELSE v

\* mutant: only the upper limit is applied
ClipUpperOnly(v, lo, hi) == IF v > hi THEN hi ELSE v

Clip(v, lo, hi) == IF v < lo THEN lo ELSE IF v > hi THEN hi ELSE v

\* mutant: the stop value is taken as included
ArangeInclusive(start, stop, step) ==
    LET count == IF stop >= start THEN ((stop - start) \div step) + 1 ELSE 0
    IN  [i \in 1..count |-> start + (i - 1) * step]

\* mutant: the sequence is counted from zero instead of from start
ArangeFromZero(start, stop, step) ==
    LET count == IF stop > start THEN ((stop - start - 1) \div step) + 1 ELSE 0
    IN  [i \in 1..count |-> (i - 1) * step]

\* np.arange(start, stop, step) for step > 0
Arange(start, stop, step) ==
    LET count == IF stop > start THEN ((stop - start - 1) \div step) + 1 ELSE 0
    IN  [i \in 1..count |-> start + (i - 1) * step]

\* 1000 * sum_{j >= k-1} (p/q)^j / j!  continued from the term of index k-1
RECURSIVE ExpSum(_, _, _, _)
ExpSum(p, q, k, term) ==
    IF term = 0 THEN 0
    ELSE term + ExpSum(p, q, k + 1, (term * p) \div (q * k))

\* np.exp(-p/q) in thousandths, for p >= 0, q > 0
ExpNeg(p, q) == (1000 * 1000) \div ExpSum(p, q, 1, 1000)

\* np.random.normal(loc, scale, len(z)) for the standard scores z
Normal(loc, scale, z) == [i \in DOMAIN z |-> loc + scale * z[i]]

\* pd.DataFrame(): no columns, no rows
EmptyFrame == [c \in {} |-> <<>>]

Columns(t) == DOMAIN t

NRows(t) == IF DOMAIN t = {} THEN 0 ELSE Len(t[CHOOSE c \in DOMAIN t : TRUE])

\* mutant: a table with columns and no rows is not taken as empty
IsEmptyColumnsOnly(t) == DOMAIN t = {}

\* DataFrame.empty: some axis has length 0
IsEmpty(t) == DOMAIN t = {} \/ NRows(t) = 0

\* df[col] = df[col].clip(lo, hi)
ClipColumn(t, col, lo, hi) ==
    [t EXCEPT ![col] = [i \in DOMAIN t[col] |-> Clip(t[col][i], lo, hi)]]

----------------------------------------------------------------------------
(* Generators *)

generate_dummy_maml_trajectory(epochs, log_interval, zLoss, zAcc, zAlign) ==
    LET steps == Arange(log_interval, epochs + 1, log_interval)
        nLoss == Normal(0, 20, zLoss)
        nAcc == Normal(0, 20, zAcc)
        nAlign == Normal(0, 50, zAlign)
        dummy_data ==
            [log_step |-> steps,
             val_loss |-> [i \in DOMAIN steps |->
                 700 - (300 * (1000 - ExpNeg(10 * steps[i], 3 * epochs))) \div 1000
                 + nLoss[i]],
             val_accuracy |-> [i \in DOMAIN steps |->
                 500 + (400 * (1000 - ExpNeg(10 * steps[i], 4 * epochs))) \div 1000
                 + nAcc[i]],
             grad_alignment |-> [i \in DOMAIN steps |->
                 100 + (600 * (1000 - ExpNeg(2 * steps[i], epochs))) \div 1000
                 + nAlign[i]]]
    IN  ClipColumn(dummy_data, "val_accuracy", 0, 1000)

generate_dummy_sgd_trajectory(num_tasks, zLoss, zAcc, uSupport) ==
    LET idx == Arange(0, num_tasks, 1)
        nLoss == Normal(0, 30, zLoss)
        nAcc == Normal(0, 30, zAcc)
        dummy_data ==
            [task_idx |-> idx,
             query_loss |-> [i \in DOMAIN idx |->
                 600 - (200 * (1000 - ExpNeg(2 * idx[i], num_tasks))) \div 1000
                 + nLoss[i]],
             query_accuracy |-> [i \in DOMAIN idx |->
                 550 + (300 * (1000 - ExpNeg(10 * idx[i], 6 * num_tasks))) \div 1000
                 + nAcc[i]],
             final_support_loss |-> [i \in DOMAIN idx |-> uSupport[i] \div 10],
             num_sgd_steps |-> [i \in DOMAIN idx |-> 100],
             lr |-> [i \in DOMAIN idx |-> 1]]
    IN  ClipColumn(dummy_data, "query_accuracy", 0, 1000)

\* type = 'maml', num_points >= 1 (epochs[-1] raises IndexError for 0)
DriftMaml(num_points, final_drift_mean, zInit, zPrev) ==
    LET base == Arange(1, num_points + 1, 1)
        epochs == [i \in DOMAIN base |-> base[i] * 100]
        lastEpoch == epochs[num_points]
        nInit == Normal(0, 100, zInit)
        nPrev == Normal(100, 50, zPrev)
    IN  [epoch |-> epochs,
         l2_drift_from_init |-> [i \in 1..num_points |->
             (final_drift_mean
                 * (1000 - ExpNeg(10 * epochs[i], num_points * 100 * 4))) \div 1000
             + nInit[i]],
         l2_drift_from_previous |-> [i \in 1..num_points |->
             Abs((((nPrev[i] * final_drift_mean) \div 1000)
                 * (2 * lastEpoch - epochs[i])) \div (lastEpoch * lastEpoch))]]

\* type = 'sgd'
DriftSgd(num_points, final_drift_mean, final_drift_std, zFinal) ==
    LET drifts == [i \in 1..num_points |->
            (final_drift_mean * 8) \div 10 + (final_drift_std * zFinal[i])]
    IN  [final_l2_drift_from_init |-> [i \in 1..num_points |-> Abs(drifts[i])]]

generate_dummy_drift_data(num_points, type, final_drift_mean, final_drift_std, zA, zB) ==
    IF type = "maml" THEN DriftMaml(num_points, final_drift_mean, zA, zB)
    ELSE IF type = "sgd" THEN DriftSgd(num_points, final_drift_mean, final_drift_std, zA)
    ELSE EmptyFrame

\* the driver's "complex" variant of a MAML trajectory
ComplexMaml(t) ==
    LET scaled == [t EXCEPT
            !["val_accuracy"] = [i \in DOMAIN t["val_accuracy"] |->
                (t["val_accuracy"][i] * 9) \div 10 - 50]]
        clipped == ClipColumn(scaled, "val_accuracy", 0, 1000)
    IN  [clipped EXCEPT
            !["grad_alignment"] = [i \in DOMAIN t["grad_alignment"] |->
                (t["grad_alignment"][i] * 85) \div 100]]

\* the driver's "complex" variant of an SGD trajectory
ComplexSgd(t) ==
    LET scaled == [t EXCEPT
            !["query_accuracy"] = [i \in DOMAIN t["query_accuracy"] |->
                (t["query_accuracy"][i] * 88) \div 100 - 80]]
    IN  ClipColumn(scaled, "query_accuracy", 0, 1000)

----------------------------------------------------------------------------------------------------------------------------------------------------------------------------------------------------
(* File system, console and pyplot primitives *)

\* str.replace(' ', '_') on a text given as fragments
\* mutant: only the first space is replaced
ReplaceFirstOnly(text) ==
    [i \in DOMAIN text |->
        IF text[i] = " " /\ (\A k \in 1..(i - 1) : text[k] # " ") THEN "_" ELSE text[i]]

Replace(text) == [i \in DOMAIN text |-> IF text[i] = " " THEN "_" ELSE text[i]]

\* f"{base}{title_suffix.replace(' ', '_')}.png"
FileName(base, title_suffix) == <<base>> \o Replace(title_suffix) \o <<".png">>

\* os.path.join(output_dir, name)
Join(output_dir, name) == <<output_dir, name>>

\* a regular file named like the directory, in the working directory
Blocks(output_dir, f) == Join(".", <<output_dir>>) \in f

\* mutant: exist_ok left out, an existing directory is an error
MakedirsNoExistOk(output_dir, d, f) ==
    IF Blocks(output_dir, f) \/ output_dir \in d
    THEN [ok |-> FALSE, dirs |-> d]
    ELSE [ok |-> TRUE, dirs |-> d \cup {output_dir}]

\* os.makedirs(output_dir, exist_ok=True): FileExistsError when the path is a
\* regular file
Makedirs(output_dir, d, f) ==
    IF Blocks(output_dir, f)
    THEN [ok |-> FALSE, dirs |-> d]
    ELSE [ok |-> TRUE, dirs |-> d \cup {output_dir}]

\* sns.lineplot / sns.histplot(data=t, x=.., y=..): ValueError when a named
\* column is not in the table
CanDraw(t, cols) == cols \subseteq Columns(t)

\* the early return of a renderer: one line printed, nothing else done
Skipped(line, d, f) ==
    [outcome |-> "skipped", lines |-> <<line>>, figs |-> 0, closed |-> 0,
     dirs |-> d, files |-> f, wrote |-> {}, panels |-> <<>>]

\* an exception leaves the renderer after plt.subplots: plt.close(fig), the
\* last statement, is not reached
Raised(d, f, panels) ==
    [outcome |-> "raised", lines |-> <<>>, figs |-> 1, closed |-> 0,
     dirs |-> d, files |-> f, wrote |-> {}, panels |-> panels]

\* tight_layout, makedirs, savefig, print, close: the tail of every renderer
SaveFigure(base, title_suffix, output_dir, line, d, f, panels) ==
    LET made == Makedirs(output_dir, d, f)
        path == Join(output_dir, FileName(base, title_suffix))
    IN  IF ~made.ok THEN Raised(d, f, panels)
        ELSE [outcome |-> "saved", lines |-> <<line>>, figs |-> 1, closed |-> 1,
              dirs |-> made.dirs, files |-> f \cup {path}, wrote |-> {path},
              panels |-> panels]

----------------------------------------------------------------------------
(* Renderers: the result of a call on the file system (d, f) *)

plot_maml_learning_curves(df_maml, title_suffix, output_dir, d, f) ==
    IF IsEmpty(df_maml)
    THEN Skipped(<<"MAML dataframe is empty for ">> \o title_suffix
                 \o <<". Skipping plot.">>, d, f)
    ELSE IF ~CanDraw(df_maml, {"log_step", "val_loss"}) THEN Raised(d, f, <<>>)
    ELSE IF ~CanDraw(df_maml, {"log_step", "val_accuracy"}) THEN Raised(d, f, <<"loss">>)
    ELSE SaveFigure("maml_learning_curves", title_suffix, output_dir,
                    <<"Saved MAML learning curves plot to ", output_dir, "/">>, d, f,
                    IF "grad_alignment" \in Columns(df_maml)
                    THEN <<"loss", "accuracy", "alignment">>
                    ELSE <<"loss", "accuracy">>)

plot_sgd_performance_distribution(df_sgd, title_suffix, output_dir, d, f) ==
    IF IsEmpty(df_sgd)
    THEN Skipped(<<"SGD dataframe is empty for ">> \o title_suffix
                 \o <<". Skipping plot.">>, d, f)
    ELSE IF ~CanDraw(df_sgd, {"query_accuracy"}) THEN Raised(d, f, <<>>)
    ELSE IF ~CanDraw(df_sgd, {"query_loss"}) THEN Raised(d, f, <<"accuracy">>)
    ELSE SaveFigure("sgd_performance_distribution", title_suffix, output_dir,
                    <<"Saved SGD performance distribution plot to ", output_dir, "/">>,
                    d, f, <<"accuracy", "loss">>)

plot_gradient_alignment_maml(df_maml, title_suffix, output_dir, d, f) ==
    IF IsEmpty(df_maml) \/ "grad_alignment" \notin Columns(df_maml)
    THEN Skipped(<<"MAML dataframe for grad alignment is empty or missing column for ">>
                 \o title_suffix \o <<". Skipping plot.">>, d, f)
    ELSE IF ~CanDraw(df_maml, {"log_step", "grad_alignment"}) THEN Raised(d, f, <<>>)
    ELSE SaveFigure("maml_gradient_alignment", title_suffix, output_dir,
                    <<"Saved MAML gradient alignment plot to ", output_dir, "/">>,
                    d, f, <<"alignment">>)

\* mutant: the column test of a drift panel is left out
HasDataAnyColumn(t, col) == ~IsEmpty(t)

\* `not df.empty and col in df.columns`
HasData(t, col) == ~IsEmpty(t) /\ col \in Columns(t)

plot_weight_drift_comparison(df_maml_drift, df_sgd_final_drifts, title_suffix, output_dir, d, f) ==
    LET left == IF HasData(df_maml_drift, "l2_drift_from_init")
                THEN "plot" ELSE "placeholder"
        right == IF HasData(df_sgd_final_drifts, "final_l2_drift_from_init")
                 THEN "plot" ELSE "placeholder"
    IN  IF left = "plot" /\ ~CanDraw(df_maml_drift, {"epoch", "l2_drift_from_init"})
        THEN Raised(d, f, <<>>)
        ELSE IF right = "plot" /\ ~CanDraw(df_sgd_final_drifts, {"final_l2_drift_from_init"})
        THEN Raised(d, f, <<left>>)
        ELSE SaveFigure("weight_drift_comparison", title_suffix, output_dir,
                        <<"Saved weight drift comparison plot to ", output_dir, "/">>,
                        d, f, <<left, right>>)

----------------
(* SpecGen: one generator call on arbitrary arguments and noise, then the  *)
(* driver's rescaling of the table it returned.  The arguments and the     *)
(* random draws of the call are chosen in the initial state.               *)

NoCall == [fn |-> "none", stage |-> "none", epochs |-> 0, log_interval |-> 0,
           n |-> 0, type |-> "", mean |-> 0, std |-> 0,
           zA |-> <<>>, zB |-> <<>>, zC |-> <<>>]

NoRender == [seq |-> 0, repeat |-> FALSE, fn |-> "none", table |-> EmptyFrame, table2 |-> EmptyFrame,
             suffix |-> <<>>, dir |-> "", outcome |-> "none", wrote |-> {},
             lines |-> <<>>, figs |-> 0, closed |-> 0, panels |-> <<>>]

FsInit ==
    /\ dirs = {}
    /\ files = {Join(".", <<"blocked">>)}
    /\ openFigs = 0
    /\ last = NoRender

\* pc = 0: the driver is not running
DriverIdle ==
    /\ pc = 0
    /\ env = EmptyFrame
    /\ passes = EmptyFrame

\* the arguments and draws of a call of each generator
MamlCall ==
    \E epochs \in 1..MaxEpochs, log_interval \in 1..MaxInterval :
        LET n == Len(Arange(log_interval, epochs + 1, log_interval)) IN
        /\ n <= MaxPoints
        /\ \E zLoss \in Vec(ZFew, n), zAcc \in Vec(ZAny, n), zAlign \in Vec(ZFew, n) :
              gen = [NoCall EXCEPT !.fn = "maml", !.stage = "call", !.epochs = epochs,
                                   !.log_interval = log_interval,
                                   !.zA = zLoss, !.zB = zAcc, !.zC = zAlign]

SgdCall ==
    \E num_tasks \in 1..MaxPoints :
        \E zLoss \in Vec(ZFew, num_tasks), zAcc \in Vec(ZAny, num_tasks),
           uSupport \in Vec(RandSet, num_tasks) :
            gen = [NoCall EXCEPT !.fn = "sgd", !.stage = "call", !.n = num_tasks,
                                 !.zA = zLoss, !.zB = zAcc, !.zC = uSupport]

DriftCall ==
    \E num_points \in 1..MaxPoints, mean \in DriftMeans :
        \/ \E zInit \in Vec(ZFew, num_points), zPrev \in Vec(ZAny, num_points) :
              gen = [NoCall EXCEPT !.fn = "drift", !.stage = "call", !.n = num_points,
                                   !.type = "maml", !.mean = mean, !.std = 1000,
                                   !.zA = zInit, !.zB = zPrev]
        \/ \E std \in DriftStds, zFinal \in Vec(ZAny, num_points) :
              gen = [NoCall EXCEPT !.fn = "drift", !.stage = "call", !.n = num_points,
                                   !.type = "sgd", !.mean = mean, !.std = std,
                                   !.zA = zFinal]
        \/ gen = [NoCall EXCEPT !.fn = "drift", !.stage = "call", !.n = num_points,
                                !.type = "other", !.mean = mean, !.std = 1000]

InitGen ==
    /\ df = EmptyFrame
    /\ (MamlCall \/ SgdCall \/ DriftCall)
    /\ FsInit
    /\ DriverIdle

GenMaml ==
    /\ gen.fn = "maml" /\ gen.stage = "call"
    /\ df' = generate_dummy_maml_trajectory(gen.epochs, gen.log_interval,
                                            gen.zA, gen.zB, gen.zC)
    /\ gen' = [gen EXCEPT !.stage = "returned"]
    /\ UNCHANGED <<dirs, files, openFigs, last, pc, env, passes>>

GenSgd ==
    /\ gen.fn = "sgd" /\ gen.stage = "call"
    /\ df' = generate_dummy_sgd_trajectory(gen.n, gen.zA, gen.zB, gen.zC)
    /\ gen' = [gen EXCEPT !.stage = "returned"]
    /\ UNCHANGED <<dirs, files, openFigs, last, pc, env, passes>>

GenDrift ==
    /\ gen.fn = "drift" /\ gen.stage = "call"
    /\ df' = generate_dummy_drift_data(gen.n, gen.type, gen.mean, gen.std,
                                       gen.zA, gen.zB)
    /\ gen' = [gen EXCEPT !.stage = "returned"]
    /\ UNCHANGED <<dirs, files, openFigs, last, pc, env, passes>>

\* driver lines 193-196 on a freshly generated MAML trajectory
RescaleMaml ==
    /\ gen.fn = "maml" /\ gen.stage = "returned"
    /\ df' = ComplexMaml(df)
    /\ gen' = [gen EXCEPT !.stage = "rescaled"]
    /\ UNCHANGED <<dirs, files, openFigs, last, pc, env, passes>>

\* driver lines 201-203 on a freshly generated SGD trajectory
RescaleSgd ==
    /\ gen.fn = "sgd" /\ gen.stage = "returned"
    /\ df' = ComplexSgd(df)
    /\ gen' = [gen EXCEPT !.stage = "rescaled"]
    /\ UNCHANGED <<dirs, files, openFigs, last, pc, env, passes>>

NextGen == GenMaml \/ GenSgd \/ GenDrift \/ RescaleMaml \/ RescaleSgd

SpecGen == InitGen /\ [][NextGen]_vars

----------------------------------------------------------------------------------------------------------------------------------------
(* SpecRender: renderer calls, one after the other, on tables of every     *)
(* shape, with the file system the earlier calls left                      *)

MaxCalls == 2   \* renderer calls in a run

\* row counts of the tables handed to a renderer
RowCounts == {0, 1}

\* title suffixes: none, and one with two spaces
Suffixes == {<<>>, <<" ", "(a", " ", "b)">>}

\* output directories: the default, and a name taken by a regular file
OutDirs == {"figures", "blocked"}

MkTable(cols, n) == [c \in cols |-> [i \in 1..n |-> 0]]

MamlCols == {"log_step", "val_loss", "val_accuracy", "grad_alignment"}
SgdCols == {"query_accuracy", "query_loss"}
MamlDriftCols == {"epoch", "l2_drift_from_init", "l2_drift_from_previous"}
SgdDriftCols == {"final_l2_drift_from_init"}

\* tables of one row with every subset of the columns, and the tables of
\* all the columns with every row count
Tables(cols) ==
    {MkTable(c, 1) : c \in SUBSET cols} \cup {MkTable(cols, n) : n \in RowCounts}

InitRender ==
    /\ df = EmptyFrame
    /\ gen = NoCall
    /\ FsInit
    /\ DriverIdle

\* the effect of a renderer call with result r on the process state
Apply(fn, t, t2, title_suffix, output_dir, r) ==
    /\ dirs' = r.dirs
    /\ files' = r.files
    /\ openFigs' = openFigs + r.figs - r.closed
    /\ last' = [seq |-> last.seq + 1,
                repeat |-> /\ last.outcome = "saved" /\ last.fn = fn
                           /\ last.table = t /\ last.table2 = t2
                           /\ last.suffix = title_suffix /\ last.dir = output_dir,
                fn |-> fn, table |-> t, table2 |-> t2,
                suffix |-> title_suffix, dir |-> output_dir, outcome |-> r.outcome,
                wrote |-> r.wrote, lines |-> r.lines, figs |-> r.figs,
                closed |-> r.closed, panels |-> r.panels]

PlotMaml ==
    /\ pc = 0 /\ last.seq < MaxCalls
    /\ \E t \in Tables(MamlCols), title_suffix \in Suffixes, output_dir \in OutDirs :
          Apply("plot_maml_learning_curves", t, EmptyFrame, title_suffix, output_dir,
                plot_maml_learning_curves(t, title_suffix, output_dir, dirs, files))
    /\ UNCHANGED <<df, gen, pc, env, passes>>

PlotSgd ==
    /\ pc = 0 /\ last.seq < MaxCalls
    /\ \E t \in Tables(SgdCols), title_suffix \in Suffixes, output_dir \in OutDirs :
          Apply("plot_sgd_performance_distribution", t, EmptyFrame, title_suffix,
                output_dir,
                plot_sgd_performance_distribution(t, title_suffix, output_dir, dirs, files))
    /\ UNCHANGED <<df, gen, pc, env, passes>>

PlotGradAlign ==
    /\ pc = 0 /\ last.seq < MaxCalls
    /\ \E t \in Tables(MamlCols), title_suffix \in Suffixes, output_dir \in OutDirs :
          Apply("plot_gradient_alignment_maml", t, EmptyFrame, title_suffix, output_dir,
                plot_gradient_alignment_maml(t, title_suffix, output_dir, dirs, files))
    /\ UNCHANGED <<df, gen, pc, env, passes>>

PlotDrift ==
    /\ pc = 0 /\ last.seq < MaxCalls
    /\ \E t \in Tables(MamlDriftCols), t2 \in Tables(SgdDriftCols),
          title_suffix \in Suffixes, output_dir \in OutDirs :
          Apply("plot_weight_drift_comparison", t, t2, title_suffix, output_dir,
                plot_weight_drift_comparison(t, t2, title_suffix, output_dir, dirs, files))
    /\ UNCHANGED <<df, gen, pc, env, passes>>

NextRender == PlotMaml \/ PlotSgd \/ PlotGradAlign \/ PlotDrift

SpecRender == InitRender /\ [][NextRender]_vars

----------------------------------------------------------------------------
(* SpecDriver: the statements under `if __name__ == "__main__"`, one per    *)
(* step; pc is the line of the next statement.  The driver's row counts    *)
(* (100 and 200) are scaled down to DrvPoints, its log interval, drift     *)
(* means and deviations are the program's.  Each generated table takes one *)
(* standard score for all its draws.                                       *)

DrvPoints == 2   \* rows of each table the driver generates

DrvLogInterval == 100
DrvEpochs == DrvPoints * DrvLogInterval

\* standard scores of the driver's draws
DrvZ == {-3, 0, 3}

\* mutant: the MAML rescaling is done after the learning-curve plot of the
\* complex table
DriverLinesRescaleLate == <<190, 191, 199, 200, 201, 206, 207, 209, 210,
                            213, 214, 215, 216, 219, 193, 220, 221, 222, 224>>

\* the driver's statements, in order
DriverLines == <<190, 191, 193, 199, 200, 201, 206, 207, 209, 210,
                 213, 214, 215, 216, 219, 220, 221, 222, 224>>

\* the line after pc
After(line) ==
    LET k == CHOOSE j \in DOMAIN DriverLines : DriverLines[j] = line
    IN  DriverLines[k + 1]

Simple == <<" ", "(Concept:", " ", "Simple)">>
Complex == <<" ", "(Concept:", " ", "Complex)">>

DriverTables == {"dummy_maml_df_simple", "dummy_maml_df_complex",
                 "dummy_sgd_df_simple", "dummy_sgd_df_complex",
                 "dummy_maml_drift_simple", "dummy_sgd_final_drifts_simple",
                 "dummy_maml_drift_complex", "dummy_sgd_final_drifts_complex"}

InitDriver ==
    /\ df = EmptyFrame
    /\ gen = NoCall
    /\ \/ dirs = {} /\ files = {}
       \/ dirs = {"figures"} /\ files = {}
       \/ dirs = {} /\ files = {Join(".", <<"figures">>)}
    /\ openFigs = 0
    /\ last = NoRender
    /\ pc = 190
    /\ env = EmptyFrame
    /\ passes = EmptyFrame

Const(n, z) == [i \in 1..n |-> z]

\* name = value: binds a driver variable to a new table
Bind(name, t) ==
    /\ env' = [k \in DOMAIN env \cup {name} |-> IF k = name THEN t ELSE env[k]]
    /\ passes' = [k \in DOMAIN passes \cup {name} |-> IF k = name THEN 0 ELSE passes[k]]

DrvGenMaml ==
    /\ pc \in {190, 191}
    /\ \E z \in DrvZ :
          LET n == Len(Arange(DrvLogInterval, DrvEpochs + 1, DrvLogInterval))
          IN  Bind(IF pc = 190 THEN "dummy_maml_df_simple" ELSE "dummy_maml_df_complex",
                   generate_dummy_maml_trajectory(DrvEpochs, DrvLogInterval,
                       Const(n, z), Const(n, z), Const(n, z)))
    /\ pc' = After(pc)
    /\ UNCHANGED <<df, gen, dirs, files, openFigs, last>>

DrvRescaleMaml ==
    /\ pc = 193
    /\ env' = [env EXCEPT !["dummy_maml_df_complex"] = ComplexMaml(@)]
    /\ pc' = After(pc)
    /\ UNCHANGED <<df, gen, dirs, files, openFigs, last, passes>>

DrvGenSgd ==
    /\ pc \in {199, 200}
    /\ \E z \in DrvZ :
          Bind(IF pc = 199 THEN "dummy_sgd_df_simple" ELSE "dummy_sgd_df_complex",
               generate_dummy_sgd_trajectory(DrvPoints, Const(DrvPoints, z),
                   Const(DrvPoints, z), Const(DrvPoints, 500)))
    /\ pc' = After(pc)
    /\ UNCHANGED <<df, gen, dirs, files, openFigs, last>>

DrvRescaleSgd ==
    /\ pc = 201
    /\ env' = [env EXCEPT !["dummy_sgd_df_complex"] = ComplexSgd(@)]
    /\ pc' = After(pc)
    /\ UNCHANGED <<df, gen, dirs, files, openFigs, last, passes>>

DrvGenDrift ==
    /\ pc \in {206, 207, 209, 210}
    /\ \E z \in DrvZ :
          LET zs == Const(DrvPoints, z) IN
          CASE pc = 206 -> Bind("dummy_maml_drift_simple",
                   generate_dummy_drift_data(DrvPoints, "maml", 10000, 1000, zs, zs))
            [] pc = 207 -> Bind("dummy_sgd_final_drifts_simple",
                   generate_dummy_drift_data(DrvPoints, "sgd", 8000, 2000, zs, zs))
            [] pc = 209 -> Bind("dummy_maml_drift_complex",
                   generate_dummy_drift_data(DrvPoints, "maml", 15000, 1000, zs, zs))
            [] pc = 210 -> Bind("dummy_sgd_final_drifts_complex",
                   generate_dummy_drift_data(DrvPoints, "sgd", 12000, 2500, zs, zs))
    /\ pc' = After(pc)
    /\ UNCHANGED <<df, gen, dirs, files, openFigs, last>>

\* a renderer call of the driver on its variables named by `names`; an
\* exception ends the run (pc = -1), line 224 is the end of a complete run
DrvCall(fn, names, title_suffix, r) ==
    /\ Apply(fn, env[names[1]],
             IF Len(names) = 2 THEN env[names[2]] ELSE EmptyFrame,
             title_suffix, "figures", r)
    /\ passes' = [k \in DOMAIN passes |->
                     IF \E j \in DOMAIN names : names[j] = k
                     THEN passes[k] + 1 ELSE passes[k]]
    /\ pc' = IF r.outcome = "raised" THEN -1 ELSE After(pc)
    /\ UNCHANGED <<df, gen, env>>

DrvPlotMaml ==
    /\ pc \in {213, 219}
    /\ LET name == IF pc = 213 THEN "dummy_maml_df_simple" ELSE "dummy_maml_df_complex"
           sfx == IF pc = 213 THEN Simple ELSE Complex
       IN  DrvCall("plot_maml_learning_curves", <<name>>, sfx,
                   plot_maml_learning_curves(env[name], sfx, "figures", dirs, files))

DrvPlotSgd ==
    /\ pc \in {214, 220}
    /\ LET name == IF pc = 214 THEN "dummy_sgd_df_simple" ELSE "dummy_sgd_df_complex"
           sfx == IF pc = 214 THEN Simple ELSE Complex
       IN  DrvCall("plot_sgd_performance_distribution", <<name>>, sfx,
                   plot_sgd_performance_distribution(env[name], sfx, "figures", dirs, files))

DrvPlotGradAlign ==
    /\ pc \in {215, 221}
    /\ LET name == IF pc = 215 THEN "dummy_maml_df_simple" ELSE "dummy_maml_df_complex"
           sfx == IF pc = 215 THEN Simple ELSE Complex
       IN  DrvCall("plot_gradient_alignment_maml", <<name>>, sfx,
                   plot_gradient_alignment_maml(env[name], sfx, "figures", dirs, files))

DrvPlotDrift ==
    /\ pc \in {216, 222}
    /\ LET a == IF pc = 216 THEN "dummy_maml_drift_simple" ELSE "dummy_maml_drift_complex"
           b == IF pc = 216 THEN "dummy_sgd_final_drifts_simple"
                ELSE "dummy_sgd_final_drifts_complex"
           sfx == IF pc = 216 THEN Simple ELSE Complex
       IN  DrvCall("plot_weight_drift_comparison", <<a, b>>, sfx,
                   plot_weight_drift_comparison(env[a], env[b], sfx, "figures", dirs, files))

NextDriver ==
    \/ DrvGenMaml \/ DrvRescaleMaml \/ DrvGenSgd \/ DrvRescaleSgd \/ DrvGenDrift
    \/ DrvPlotMaml \/ DrvPlotSgd \/ DrvPlotGradAlign \/ DrvPlotDrift

SpecDriver == InitDriver /\ [][NextDriver]_vars

\* renderer calls made directly, and the driver run
SpecRun == (InitRender \/ InitDriver) /\ [][NextRender \/ NextDriver]_vars

----------------
(* Properties of the generators (SpecGen) *)

Returned == gen.stage \in {"returned", "rescaled"}

\* every column of the returned table has n rows
HasRows(n) == DOMAIN df # {} /\ \A c \in DOMAIN df : Len(df[c]) = n

InUnit(col) == \A i \in DOMAIN df[col] : df[col][i] >= 0 /\ df[col][i] <= 1000

NonNegative(col) == \A i \in DOMAIN df[col] : df[col][i] >= 0

\* C3 as stated: the MAML trajectory has exactly epochs/log_interval rows for
\* all positive epochs and log_interval, i.e. rows * log_interval = epochs
\* (and the SGD trajectory and the drift tables have N rows).
C3_RowsExactQuotient ==
    Returned =>
        /\ gen.fn = "maml" => DOMAIN df # {} /\ NRows(df) * gen.log_interval = gen.epochs
        /\ gen.fn = "sgd" => HasRows(gen.n)
        /\ gen.fn = "drift" /\ gen.type \in {"maml", "sgd"} => HasRows(gen.n)

\* C3 amended: generate_dummy_sgd_trajectory(N) and generate_dummy_drift_data(N,
\* 'maml' or 'sgd') return exactly N rows in every column, and
\* generate_dummy_maml_trajectory returns floor(epochs / log_interval) rows
\* (no row at all when log_interval > epochs).
C3_RowCount ==
    Returned =>
        /\ gen.fn = "maml" => HasRows(gen.epochs \div gen.log_interval)
        /\ gen.fn = "sgd" => HasRows(gen.n)
        /\ gen.fn = "drift" /\ gen.type \in {"maml", "sgd"} => HasRows(gen.n)

\* a MAML trajectory whose log_interval does not divide epochs, with rows
C3_Witness ==
    /\ gen.fn = "maml" /\ gen.stage = "returned"
    /\ gen.epochs % gen.log_interval # 0
    /\ NRows(df) >= 1

\* C4: val_accuracy of the MAML trajectory and query_accuracy of the SGD
\* trajectory lie in [0, 1] in every row, as returned by the generator and
\* after the driver's rescaling (multiply, subtract, clip again).
C4_AccuracyInUnit ==
    Returned =>
        /\ gen.fn = "maml" => InUnit("val_accuracy")
        /\ gen.fn = "sgd" => InUnit("query_accuracy")

\* a rescaled SGD table in which a row's noise drove the accuracy below 0:
\* the generator clipped it to 0, the rescaling took it to -0.08, and the
\* second clip brought it back to 0
C4_Witness ==
    /\ gen.fn = "sgd" /\ gen.stage = "rescaled"
    /\ \E i \in DOMAIN gen.zB : gen.zB[i] = -ZBig /\ df["query_accuracy"][i] = 0

\* C5 as stated: every drift column of generate_dummy_drift_data is >= 0 in
\* every row, l2_drift_from_init included.
C5_AllDriftNonNegative ==
    Returned /\ gen.fn = "drift" =>
        /\ gen.type = "maml" =>
              NonNegative("l2_drift_from_init") /\ NonNegative("l2_drift_from_previous")
        /\ gen.type = "sgd" => NonNegative("final_l2_drift_from_init")

\* C5 amended: the columns built with np.abs, l2_drift_from_previous (maml)
\* and final_l2_drift_from_init (sgd), are >= 0 in every row for any noise;
\* l2_drift_from_init is trend plus noise with no absolute value.
C5_AbsDriftNonNegative ==
    Returned /\ gen.fn = "drift" =>
        /\ gen.type = "maml" => NonNegative("l2_drift_from_previous")
        /\ gen.type = "sgd" => NonNegative("final_l2_drift_from_init")

\* an SGD drift row whose draw was negative and came out positive
C5_Witness ==
    /\ gen.fn = "drift" /\ gen.type = "sgd" /\ gen.stage = "returned"
    /\ \E i \in DOMAIN gen.zA :
          /\ (gen.mean * 8) \div 10 + gen.std * gen.zA[i] < 0
          /\ df["final_l2_drift_from_init"][i] > 0

\* C6: log_step starts at log_interval, consecutive rows differ by exactly
\* log_interval and no row exceeds epochs; the epoch column of the maml drift
\* table is 100 times the 1-based row index.
C6_IndexSequences ==
    Returned =>
        /\ gen.fn = "maml" =>
              LET s == df["log_step"] IN
              /\ Len(s) >= 1 => s[1] = gen.log_interval
              /\ \A i \in 1..(Len(s) - 1) : s[i + 1] - s[i] = gen.log_interval
              /\ \A i \in DOMAIN s : s[i] <= gen.epochs
        /\ gen.fn = "drift" /\ gen.type = "maml" =>
              LET e == df["epoch"] IN
              /\ \A i \in DOMAIN e : e[i] = 100 * i
              /\ \A i \in 1..(Len(e) - 1) : e[i + 1] - e[i] = 100

\* a MAML trajectory of at least two rows with an interval above 1
C6_Witness ==
    /\ gen.fn = "maml" /\ gen.stage = "returned"
    /\ gen.log_interval >= 2
    /\ Len(df["log_step"]) >= 2

----------------------------------------------------------------------------
(* Properties of the renderers (SpecRender) *)

\* a renderer call has just been made
Called == last'.seq # last.seq

\* the table has no column or no row
NoData(t) == DOMAIN t = {} \/ \A c \in DOMAIN t : t[c] = <<>>

SkipRenderers == {"plot_maml_learning_curves", "plot_sgd_performance_distribution",
                  "plot_gradient_alignment_maml"}

\* C1: a call of plot_maml_learning_curves, plot_sgd_performance_distribution
\* or plot_gradient_alignment_maml on an empty table writes no file, creates
\* no directory and no figure, and prints exactly one line, which contains
\* "Skipping plot", for every title suffix and output directory.
C1_EmptyTableSkips ==
    [][(Called /\ last'.fn \in SkipRenderers /\ NoData(last'.table)) =>
          /\ files' = files /\ dirs' = dirs
          /\ last'.wrote = {}
          /\ last'.figs = 0 /\ openFigs' = openFigs
          /\ Len(last'.lines) = 1
          /\ \E k \in DOMAIN last'.lines[1] : last'.lines[1][k] = ". Skipping plot."]_vars

\* the distribution renderer skipped a table that has columns and no rows,
\* with a title suffix, for an output directory that cannot be created
C1_Witness ==
    /\ last.fn = "plot_sgd_performance_distribution"
    /\ DOMAIN last.table = SgdCols /\ NRows(last.table) = 0
    /\ last.suffix # <<>> /\ last.dir = "blocked"
    /\ last.outcome = "skipped"

LeftUsable(t) == ~NoData(t) /\ "l2_drift_from_init" \in DOMAIN t
RightUsable(t) == ~NoData(t) /\ "final_l2_drift_from_init" \in DOMAIN t

C8_RepeatedCall ==
    [][(/\ Called /\ last.outcome = "saved"
        /\ last'.fn = last.fn /\ last'.table = last.table /\ last'.table2 = last.table2
        /\ last'.suffix = last.suffix /\ last'.dir = last.dir) =>
          /\ last'.outcome = "saved"
          /\ last'.dir \in dirs'
          /\ dirs' = dirs
          /\ files' = files
          /\ last'.wrote = last.wrote]_vars

\* the second of two equal calls that both saved
C8_Witness ==
    /\ last.seq = 2 /\ last.repeat
    /\ last.outcome = "saved"
    /\ last.wrote \subseteq files

\* C9: every figure a renderer call creates is closed when the call ends, on
\* every exit path, so no figure is open after any sequence of calls.
C9_FiguresReleased == last.figs = last.closed /\ openFigs = 0

----------------------------------------------------------------------------
(* Properties of the driver (SpecDriver) *)

BaseName(fn) ==
    CASE fn = "plot_maml_learning_curves" -> "maml_learning_curves"
      [] fn = "plot_sgd_performance_distribution" -> "sgd_performance_distribution"
      [] fn = "plot_gradient_alignment_maml" -> "maml_gradient_alignment"
      [] fn = "plot_weight_drift_comparison" -> "weight_drift_comparison"

ConceptFile(base, word) ==
    <<"figures", <<base, "_", "(Concept:", "_", word, ".png">>>>

EightFiles ==
    {ConceptFile(b, w) :
        b \in {"maml_learning_curves", "sgd_performance_distribution",
               "maml_gradient_alignment", "weight_drift_comparison"},
        w \in {"Simple)", "Complex)"}}

\* the file name is base, the suffix with "_" for every space, ".png"
NameOk(name, base, title_suffix) ==
    /\ Len(name) = Len(title_suffix) + 2
    /\ name[1] = base
    /\ name[Len(name)] = ".png"
    /\ \A i \in DOMAIN title_suffix :
          name[i + 1] = IF title_suffix[i] = " " THEN "_" ELSE title_suffix[i]

\* C7: each renderer call that returns without skipping writes exactly one
\* file, <base name><suffix with '_' for every space>.png under the output
\* directory; no call of the driver writes a file that is already there; a
\* complete driver run leaves exactly the eight files: four base names with
\* _(Concept:_Simple) and _(Concept:_Complex).
C7_OneNamedFile ==
    [][/\ (Called /\ last'.outcome \notin {"skipped", "raised"}) =>
            /\ \E path \in last'.wrote :
                  /\ last'.wrote = {path}
                  /\ path[1] = last'.dir
                  /\ NameOk(path[2], BaseName(last'.fn), last'.suffix)
            /\ files' = files \cup last'.wrote
            /\ pc > 0 => last'.wrote \cap files = {}
       /\ pc' = 224 =>
            /\ files' = EightFiles
            /\ Cardinality(files') = 8]_vars

\* a complete run: eight calls, eight files
C7_Witness ==
    /\ pc = 224 /\ last.seq = 8
    /\ last.fn = "plot_weight_drift_comparison" /\ last.suffix = Complex
    /\ Cardinality(files) = 8

\* C10 as stated: no generated table is ever passed to more than one renderer
\* call, and in a complete driver run every one was passed to exactly one.
C10_ExactlyOneRenderer ==
    /\ \A t \in DOMAIN passes : passes[t] <= 1
    /\ pc = 224 => \A t \in DOMAIN passes : passes[t] = 1

MamlTrajectories == {"dummy_maml_df_simple", "dummy_maml_df_complex"}

\* C10 amended: in a complete driver run each of the two MAML trajectory
\* tables is passed to exactly two renderer calls (learning curves and
\* gradient alignment) and each of the six other tables to exactly one; no
\* table is modified once it has been passed to a renderer.
C10_TableLifecycle ==
    [][/\ pc' = 224 =>
            /\ DOMAIN passes' = DriverTables
            /\ \A t \in DriverTables :
                  passes'[t] = IF t \in MamlTrajectories THEN 2 ELSE 1
       /\ \A t \in DOMAIN passes :
            passes[t] > 0 => t \in DOMAIN env' /\ env'[t] = env[t]]_vars

\* a complete run in which the rescaled MAML trajectory went to two renderers
C10_Witness ==
    /\ pc = 224
    /\ passes["dummy_maml_df_complex"] = 2
    /\ passes["dummy_sgd_df_complex"] = 1
    /\ env["dummy_maml_df_complex"]["val_accuracy"][1] < env["dummy_maml_df_simple"]["val_accuracy"][1]

====
